---- MODULE Spec2Model ----
(***************************************************************************)
(* A model of scripts/initialize_classes.py: the Preprocessor's record     *)
(* extractors and position filters, the team-statistics prompt builder,    *)
(* the LLM client and Orchestrator.run.                                    *)
(*                                                                         *)
(* Python values are tagged records; a call's outcome is either            *)
(* Return(value) or Raise(exception name).  A formatted string is the      *)
(* sequence of the fragments the code appends.                             *)
(***************************************************************************)
EXTENDS Integers, Sequences, FiniteSets, TLC

VARIABLES
    cell,            \* the raw cell handed to an extractor (country / ratingVersions)
    extracted,       \* outcome of the extractor on that cell, or Pending
    df,              \* player_stats_df: the player DataFrame object (mutated in place)
    gk_stats,        \* DataFrame returned by preprocess_gk, or NoFrame
    o_stats,         \* name bound by preprocess_outfield: a reference to df, or NoFrame
    collection,      \* the player collection as it was handed to the position filters
    game_stats,      \* team statistics, long format: one row per key, group, period
    match_dict,      \* match metadata
    prompt,          \* outcome of get_team_llm_prompt, or Pending
    exchanges,       \* requests posted to the text-completion service, with the answers
    llm_output,      \* outcome of general_match_report, or Pending
    log,             \* calls completed so far, in order, each with its outcome
    pc               \* position of Orchestrator.run

vars == <<cell, extracted, df, gk_stats, o_stats, collection, game_stats, match_dict,
          prompt, exchanges, llm_output, log, pc>>

-----------------------------------------------------------------------------
(* Python values and outcomes *)

PyNone == [t |-> "NoneType"]

PyFloat(x) == [t |-> "float", v |-> x]

PyInt(n) == [t |-> "int", v |-> n]

PyStr(s) == [t |-> "str", text |-> s]

PyDict(m) == [t |-> "dict", items |-> m]

PyList == [t |-> "list"]

Return(v) == [kind |-> "return", value |-> v]

Raise(e) == [kind |-> "raise", exc |-> e]

Pending == [kind |-> "pending"]

\* isinstance(x, <type>)
IsInstance(x, type) == x.t = type

\* obj[key] for a string key
GetItem(obj, key) ==
    IF obj.t = "dict"
    THEN IF key \in DOMAIN obj.items THEN Return(obj.items[key]) ELSE Raise("KeyError")
    ELSE Raise("TypeError")

\* Texts that float() parses, in tenths: float("7.5") is 7.5, held as 75
NumericText == [s \in {"7.5", "6.8"} |-> IF s = "7.5" THEN 75 ELSE 68]

\* float(x)
ToFloat(x) ==
    CASE x.t = "float" -> Return(x)
      [] x.t = "int" -> Return(PyFloat(10 * x.v))
      [] x.t = "str" -> IF x.text \in DOMAIN NumericText
                        THEN Return(PyFloat(NumericText[x.text]))
                        ELSE Raise("ValueError")
      [] OTHER -> Raise("TypeError")

\* The texts of the modelled strings that are JSON documents, with their values
JsonDocuments ==
    [s \in {"{\"original\": 7.5}", "{\"original\": \"6.8\"}", "{\"alternative\": 7.5}",
            "{\"original\": \"n/a\"}", "[7.5]", "[]",
            "{\"response\": \"Liverpool won 2-1\"}", "{\"error\": \"model not found\"}"} |->
        CASE s = "{\"original\": 7.5}" -> PyDict([original |-> PyFloat(75)])
          [] s = "{\"original\": \"6.8\"}" -> PyDict([original |-> PyStr("6.8")])
          [] s = "{\"alternative\": 7.5}" -> PyDict([alternative |-> PyFloat(75)])
          [] s = "{\"original\": \"n/a\"}" -> PyDict([original |-> PyStr("n/a")])
          [] s = "{\"response\": \"Liverpool won 2-1\"}" ->
                PyDict([response |-> PyStr("Liverpool won 2-1")])
          [] s = "{\"error\": \"model not found\"}" ->
                PyDict([error |-> PyStr("model not found")])
          [] OTHER -> PyList]

\* json.loads(s) of the json module
JsonLoads(s) ==
    IF s.text \in DOMAIN JsonDocuments
    THEN Return(JsonDocuments[s.text])
    ELSE Raise("JSONDecodeError")

\* obj.name where obj is an instance of a builtin type: str, dict, float, ...
\* have neither a "loads" nor a "JSONDecodeError" attribute
GetAttr(obj, name) ==
    IF name \in {"loads", "JSONDecodeError"} THEN Raise("AttributeError") ELSE Return(PyNone)

-----------------------------------------------------------------------------
(* Preprocessor.extract_country_name *)

\* except (json.JSONDecodeError, KeyError): json is the module here
CountryHandled == {"JSONDecodeError", "KeyError"}

extract_country_name(json_dict) ==
    LET r == GetItem(json_dict, "name")
    IN  IF r.kind = "raise" /\ r.exc \in CountryHandled THEN Return(PyNone) ELSE r

(* Preprocessor.extract_rating.  Its parameter is named json, so inside the *)
(* body json.loads and json.JSONDecodeError are attribute lookups on the    *)
(* argument, not on the json module.                                        *)

\* except (json.JSONDecodeError, KeyError, TypeError, ValueError): the tuple is
\* evaluated when an exception reaches the clause, and that evaluation looks
\* JSONDecodeError up on the argument
RatingExcept(json, r) ==
    IF r.kind = "raise"
    THEN LET cls == GetAttr(json, "JSONDecodeError")
         IN  IF cls.kind = "raise" THEN cls
             ELSE IF r.exc \in {"JSONDecodeError", "KeyError", "TypeError", "ValueError"}
                  THEN Return(PyNone)
                  ELSE r
    ELSE r

extract_rating(json) ==
    IF IsInstance(json, "float") THEN Return(json)
    ELSE IF IsInstance(json, "str")
    THEN LET loads == GetAttr(json, "loads")
             body == IF loads.kind = "raise" THEN loads
                     ELSE LET data_dict == JsonLoads(json)
                          IN  IF data_dict.kind = "raise" THEN data_dict
                              ELSE LET item == GetItem(data_dict.value, "original")
                                   IN  IF item.kind = "raise" THEN item
                                       ELSE ToFloat(item.value)
         IN  RatingExcept(json, body)
    ELSE IF IsInstance(json, "dict")
    THEN LET item == GetItem(json, "original")
             body == IF item.kind = "raise" THEN item ELSE ToFloat(item.value)
         IN  RatingExcept(json, body)
    ELSE Return(PyNone)

-----------------------------------------------------------------------------
(* DataFrames of player records: a set of column labels and the rows, each  *)
(* row carrying its index label and the cells the code reads.               *)

NoFrame == [kind |-> "none"]

Frame(columns, rows) == [kind |-> "frame", columns |-> columns, rows |-> rows]

\* Reference to the object bound to player_stats_df
DfRef == [kind |-> "ref", to |-> "player_stats_df"]

\* frame.drop(labels, axis=1): every label must be a column, else KeyError and
\* nothing is dropped
DropColumns(frame, labels) ==
    IF labels \subseteq frame.columns
    THEN Return(Frame(frame.columns \ labels, frame.rows))
    ELSE Raise("KeyError")

\* frame.loc[frame["position"] == value]: a new frame holding the matching rows
LocPosition(frame, value) ==
    Frame(frame.columns, SelectSeq(frame.rows, LAMBDA r: r.position = value))

\* frame.drop(frame[frame.position == value].index): a new frame without the
\* matching rows; the receiver is left as it is
DropPosition(frame, value) ==
    Frame(frame.columns, SelectSeq(frame.rows, LAMBDA r: r.position # value))

\* The goalkeeper list with a goalkeeper statistic slipped into it
GkDropColumnsWithSaves ==
    {"totalCross", "shotOffTarget", "onTargetScoringAttempt", "expectedGoals",
     "bigChanceMissed", "outfielderBlock", "accurateCross", "goals", "totalOffside",
     "saves"}

GkDropColumns ==
    {"totalCross", "shotOffTarget", "onTargetScoringAttempt", "expectedGoals",
     "bigChanceMissed", "outfielderBlock", "accurateCross", "goals", "totalOffside"}

OutfieldDropColumns ==
    {"goodHighClaim", "savedShotsFromInsideTheBox", "saves", "punches",
     "totalKeeperSweeper", "accurateKeeperSweeper", "goalsPrevented"}

\* preprocess_gk without the try / except around the drop
preprocess_gk_unguarded(frame) ==
    IF "position" \notin frame.columns THEN Raise("KeyError")
    ELSE DropColumns(LocPosition(frame, "G"), GkDropColumns)

\* Preprocessor.preprocess_gk: the outcome of the call; df is not written
preprocess_gk(frame) ==
    IF "position" \notin frame.columns THEN Raise("KeyError")
    ELSE LET gk_df == LocPosition(frame, "G")
             dropped == DropColumns(gk_df, GkDropColumns)
         IN  \* try: gk_df.drop(..., inplace=True)  except: pass
             IF dropped.kind = "return" THEN Return(dropped.value) ELSE Return(gk_df)

\* Preprocessor.preprocess_outfield: the value df holds after the call (it is
\* pruned in place) and the outcome; the frame returned is df itself
preprocess_outfield(frame) ==
    LET dropped == DropColumns(frame, OutfieldDropColumns)
        \* try: df.drop(..., inplace=True)  except: pass
        pruned == IF dropped.kind = "return" THEN dropped.value ELSE frame
    IN  IF "position" \notin pruned.columns
        THEN [df |-> pruned, outcome |-> Raise("AttributeError")]
        ELSE LET discarded == DropPosition(pruned, "GK")  \* result not assigned
             IN  [df |-> pruned, outcome |-> Return(DfRef)]

\* The frame a name is bound to
Deref(ref) == IF ref.kind = "ref" THEN df ELSE ref

-----------------------------------------------------------------------------
(* Team statistics and Preprocessor.get_team_llm_prompt.  game_stats is the *)
(* long-format table: a row per (key, group, period) with a home and an     *)
(* away cell, each an integer or NaN.                                       *)

NaN == [t |-> "nan"]

\* pd.notna(x)
NotNa(x) == x.t \notin {"nan", "NoneType"}

StatRow(k, g, p, h, a) == [key |-> k, group |-> g, period |-> p, home |-> h, away |-> a]

\* for period in ['ALL', '1ST', '2ND']
Periods == <<"ALL", "1ST", "2ND">>

Sides == {"home", "away"}

\* The labels of the modelled tables in the order str comparison gives them
Alphabetical == <<"Attack", "Fouls", "General", "Possession", "Shots">>

Rank(label) == CHOOSE i \in 1..Len(Alphabetical) : Alphabetical[i] = label

\* (key, group) tuples compare by key, then by group
PairBefore(a, b) ==
    \/ Rank(a[1]) < Rank(b[1])
    \/ Rank(a[1]) = Rank(b[1]) /\ Rank(a[2]) < Rank(b[2])

Least(S) == CHOOSE i \in S : \A j \in S : i <= j

\* aggfunc='first': the first non-null cell of the rows of one (key, group,
\* period), in row order; NaN when there is none
FirstValid(rows, k, g, p, side) ==
    LET hits == {i \in 1..Len(rows) :
                    /\ rows[i].key = k /\ rows[i].group = g /\ rows[i].period = p
                    /\ NotNa(rows[i][side])}
    IN  IF hits = {} THEN NaN ELSE rows[Least(hits)][side]

\* groupby(['key', 'group', 'period']).agg('first').dropna(how='all'): the
\* (key, group, period) combinations left, those with a home or an away value
Agged(rows) ==
    {<<rows[i].key, rows[i].group, rows[i].period>> : i \in
        {j \in 1..Len(rows) : NotNa(rows[j].home) \/ NotNa(rows[j].away)}}

\* The index of the pivot table, as a set: its (key, group) pairs
PivotPairs(rows) == {<<t[1], t[2]>> : t \in Agged(rows)}

\* unstack('period') then dropna(how='all', axis=1): a (side, period) column
\* exists when some combination of that period has a value on that side
PivotColumns(rows) ==
    {c \in Sides \X {Periods[i] : i \in 1..Len(Periods)} :
        \E t \in Agged(rows) : t[3] = c[2] /\ NotNa(FirstValid(rows, t[1], t[2], t[3], c[1]))}

\* The cell of the pivot table at (pair, column); NaN where unstack filled in
PivotCell(rows, pair, c) ==
    IF <<pair[1], pair[2], c[2]>> \in Agged(rows)
    THEN FirstValid(rows, pair[1], pair[2], c[2], c[1])
    ELSE NaN

\* Rows yielded by iterrows are float64 as soon as one column of the table
\* is: an input column holding a NaN, or a column unstack had to fill
FloatRows(rows) ==
    \/ \E i \in 1..Len(rows) : ~NotNa(rows[i].home) \/ ~NotNa(rows[i].away)
    \/ \E pair \in PivotPairs(rows), c \in PivotColumns(rows) :
          <<pair[1], pair[2], c[2]>> \notin Agged(rows)

RECURSIVE SortPairs(_)
\* The pairs of S in ascending order
SortPairs(S) ==
    IF S = {} THEN << >>
    ELSE LET m == CHOOSE a \in S : \A b \in S \ {a} : PairBefore(a, b)
         IN  <<m>> \o SortPairs(S \ {m})

\* The pairs in the order the rows first bring them, as an unsorted groupby
\* would leave them
PivotIndexUnsorted(rows) ==
    LET first == SelectSeq([i \in 1..Len(rows) |-> i], LAMBDA i :
                    /\ <<rows[i].key, rows[i].group, rows[i].period>> \in Agged(rows)
                    /\ \A j \in 1..(i - 1) :
                          <<rows[j].key, rows[j].group, rows[j].period>> \in Agged(rows)
                              => <<rows[j].key, rows[j].group>> # <<rows[i].key, rows[i].group>>)
    IN  [n \in 1..Len(first) |-> <<rows[first[n]].key, rows[first[n]].group>>]

\* pivot_df.iterrows(): the index of the pivot table, which groupby sorts
PivotIndex(rows) == SortPairs(PivotPairs(rows))

\* f"{value}" of a cell of a row
CellText(x, float) == IF float THEN ToString(x.v) \o ".0" ELSE ToString(x.v)

\* row[(side, period)]
RowGet(rows, pair, side, period) ==
    IF <<side, period>> \in PivotColumns(rows)
    THEN Return(PivotCell(rows, pair, <<side, period>>))
    ELSE Raise("KeyError")

\* One pass of the inner loop: the fragments appended for a period, or the
\* exception a column lookup raised
PeriodClause(rows, pair, period) ==
    LET home == RowGet(rows, pair, "home", period)
        away == RowGet(rows, pair, "away", period)
        float == FloatRows(rows)
    IN  IF home.kind = "raise" THEN home
        ELSE IF away.kind = "raise" THEN away
        ELSE IF NotNa(home.value) /\ NotNa(away.value)
        THEN Return(<<period \o ": Home " \o CellText(home.value, float)
                      \o ", Away " \o CellText(away.value, float) \o "; ">>)
        ELSE IF NotNa(home.value)
        THEN Return(<<period \o ": Home " \o CellText(home.value, float) \o "; ">>)
        ELSE IF NotNa(away.value)
        THEN Return(<<period \o ": Away " \o CellText(away.value, float) \o "; ">>)
        ELSE Return(<< >>)

RECURSIVE PeriodLoop(_, _, _)
\* The inner loop from the i-th period on
PeriodLoop(rows, pair, i) ==
    IF i > Len(Periods) THEN Return(<< >>)
    ELSE LET clause == PeriodClause(rows, pair, Periods[i])
         IN  IF clause.kind = "raise" THEN clause
             ELSE LET rest == PeriodLoop(rows, pair, i + 1)
                  IN  IF rest.kind = "raise" THEN rest
                      ELSE Return(clause.value \o rest.value)

RECURSIVE RowLoop(_, _, _)
\* The outer loop over the rows of the pivot table from the i-th on
RowLoop(rows, index, i) ==
    IF i > Len(index) THEN Return(<< >>)
    ELSE LET clauses == PeriodLoop(rows, index[i], 1)
         IN  IF clauses.kind = "raise" THEN clauses
             ELSE LET rest == RowLoop(rows, index, i + 1)
                  IN  IF rest.kind = "raise" THEN rest
                      ELSE Return(<<index[i][1] \o ": ">> \o clauses.value
                                  \o <<"\n\n">> \o rest.value)

\* The metadata section and the closing instruction
MatchInfo(md) ==
    <<"Competition: " \o md.tournament.name \o " - Season: " \o ToString(md.season.year)
        \o " - Gameweek: " \o ToString(md.roundInfo.round)
        \o " at Stadium: " \o md.venue.stadium.name \o "\n\n",
      "Home Team: " \o md.homeTeam.name \o ", Home Team Manager: "
        \o md.homeTeam.manager.name \o "\n\n",
      "Away Team: " \o md.awayTeam.name \o ", Away Team Manager: "
        \o md.awayTeam.manager.name \o "\n\n",
      "Score at half time " \o md.homeTeam.name \o ": " \o ToString(md.homeScore.period1)
        \o ", " \o md.awayTeam.name \o ": " \o ToString(md.awayScore.period1) \o "\n\n",
      "Score at full time " \o md.homeTeam.name \o ": " \o ToString(md.homeScore.current)
        \o ", " \o md.awayTeam.name \o ": " \o ToString(md.awayScore.current) \o "\n\n",
      "Generate an interesting and extensive match report, utilising only the information given."
        \o "Start off with the competition, gameweek, teams and score. Do not make "
        \o "anything up. Do not assume anything. The only true facts are provided.">>

\* Preprocessor.get_team_llm_prompt
get_team_llm_prompt(rows, md) ==
    LET stats == RowLoop(rows, PivotIndex(rows), 1)
    IN  IF stats.kind = "raise" THEN stats
        ELSE Return(<<"Match Stats Summary: \n\n">> \o stats.value \o MatchInfo(md))

-----------------------------------------------------------------------------
(* LLM.general_match_report and the text-completion service *)

\* The request body built from the prompt
Payload(p) == PyDict([model |-> PyStr("llama3.1"), prompt |-> p, stream |-> FALSE])

\* What requests.post gives back: a response, or a RequestException raised
Response(status, text) == [kind |-> "response", status_code |-> status, text |-> PyStr(text)]

ConnectionFailure == [kind |-> "failure", exc |-> "ConnectionError"]

Exchange(data, answer) == [data |-> data, answer |-> answer]

\* The second request of general_match_report, made inside try / except
\* requests.exceptions.RequestException; its outcome is only printed.
\* response.json() raises requests' JSONDecodeError on a body that is no JSON,
\* a RequestException from requests 2.27 on and a plain ValueError before
\* (legacy); .get is looked up on whatever value the body decodes to.
SecondRequest(answer, legacy) ==
    IF answer.kind = "failure" THEN Return(PyNone)
    ELSE IF answer.status_code = 200
    THEN LET decoded == JsonLoads(answer.text)
         IN  IF decoded.kind = "raise"
             THEN IF legacy THEN Raise("JSONDecodeError") ELSE Return(PyNone)
             ELSE IF decoded.value.t = "dict" THEN Return(PyNone)
             ELSE Raise("AttributeError")
    ELSE Return(PyNone)

\* LLM.general_match_report(prompt), the service answering the first request
\* with first and the second with second: the requests posted, each with its
\* answer, and the outcome of the call
general_match_report(p, first, second, legacy) ==
    LET data == Payload(p)
    IN  IF first.kind = "failure"
        THEN [exchanges |-> <<Exchange(data, first)>>, outcome |-> Raise(first.exc)]
        ELSE IF first.status_code = 200
        THEN LET loaded == JsonLoads(first.text)
             IN  IF loaded.kind = "raise"
                 THEN [exchanges |-> <<Exchange(data, first)>>, outcome |-> loaded]
                 ELSE LET generated_report == GetItem(loaded.value, "response")
                      IN  IF generated_report.kind = "raise"
                          THEN [exchanges |-> <<Exchange(data, first)>>,
                                outcome |-> generated_report]
                          ELSE LET later == SecondRequest(second, legacy)
                               IN  \* data now names the decoded response
                                   [exchanges |-> <<Exchange(data, first),
                                                    Exchange(loaded.value, second)>>,
                                    outcome |-> IF later.kind = "raise" THEN later
                                                ELSE Return(<<generated_report.value.text>>)]
        ELSE LET generated_report == <<"Error:, ", ToString(first.status_code), ", ",
                                       first.text.text, ", unluggy no report">>
                 later == SecondRequest(second, legacy)
             IN  [exchanges |-> <<Exchange(data, first), Exchange(data, second)>>,
                  outcome |-> IF later.kind = "raise" THEN later
                              ELSE Return(generated_report)]

-----------------------------------------------------------------------------
(* Bounds and the inputs drawn within them *)

MaxPlayers == 2

MaxAbsent == 2

MaxRows == 4

\* Sequences over S of at most n elements
SeqsUpTo(S, n) == UNION {[1..k -> S] : k \in 0..n}

\* Values met in a ratingVersions cell
RatingCells ==
    {PyFloat(75), PyFloat(68),
     PyDict([original |-> PyFloat(75)]), PyDict([original |-> PyStr("6.8")]),
     PyDict([original |-> PyInt(7)]), PyDict([original |-> PyStr("n/a")]),
     PyDict([original |-> PyNone]), PyDict([alternative |-> PyFloat(75)]),
     PyStr("{\"original\": 7.5}"), PyStr("{\"original\": \"6.8\"}"),
     PyStr("{\"alternative\": 7.5}"), PyStr("{\"original\": \"n/a\"}"),
     PyStr("[7.5]"), PyStr("7.5 (original)"),
     PyInt(7), PyNone, PyList}

\* Values met in a country cell
CountryCells ==
    {PyDict([name |-> PyStr("England")]),
     PyDict([name |-> PyStr("Egypt"), alpha2 |-> PyStr("EG")]),
     PyDict([alpha2 |-> PyStr("EG")]),
     PyNone, PyStr("England"), PyList}

\* Columns every player table has, and those a dataset may lack
BaseColumns == {"name", "position", "country_name", "match_rating", "minutesPlayed"}

OptionalColumns == GkDropColumns \cup OutfieldDropColumns

Positions == {"G", "D", "M", "F"}

\* rows[i] tagged with its index label i
Indexed(rows) == [i \in 1..Len(rows) |-> [id |-> i] @@ rows[i]]

\* The player collections handed to the position filters
PlayerFrames ==
    {Frame(BaseColumns \cup (OptionalColumns \ absent), Indexed(rows)) :
        absent \in {a \in SUBSET OptionalColumns : Cardinality(a) <= MaxAbsent},
        rows \in SeqsUpTo([position : Positions], MaxPlayers)}

\* The long-format team statistics rows the tables are drawn from: a
\* statistic with all three periods, a second row for one of its periods, a
\* one-sided statistic on each side, and a row without values
TeamRows ==
    {StatRow("Possession", "General", "ALL", PyInt(60), PyInt(40)),
     StatRow("Possession", "General", "ALL", PyInt(55), PyInt(45)),
     StatRow("Possession", "General", "1ST", PyInt(58), PyInt(42)),
     StatRow("Possession", "General", "2ND", PyInt(62), PyInt(38)),
     StatRow("Fouls", "General", "ALL", PyInt(5), NaN),
     StatRow("Possession", "Attack", "1ST", NaN, PyInt(3)),
     StatRow("Shots", "Attack", "2ND", NaN, NaN)}

\* Tables of at most MaxRows distinct rows, in every order
TeamTables ==
    {t \in SeqsUpTo(TeamRows, MaxRows) :
        \A i, j \in 1..Len(t) : t[i] = t[j] => i = j}

MatchDict ==
    [tournament |-> [name |-> "Premier League"],
     season |-> [year |-> 2024],
     roundInfo |-> [round |-> 10],
     homeTeam |-> [name |-> "Liverpool", manager |-> [name |-> "Arne Slot"]],
     awayTeam |-> [name |-> "Man Utd", manager |-> [name |-> "Erik ten Hag"]],
     venue |-> [stadium |-> [name |-> "Anfield"]],
     homeScore |-> [period1 |-> 1, current |-> 2],
     awayScore |-> [period1 |-> 0, current |-> 1]]

NoDict == [tournament |-> [name |-> "none"]]

\* What the text-completion service may answer
Answers ==
    {Response(st, body) :
        st \in {200, 500},
        body \in {"{\"response\": \"Liverpool won 2-1\"}", "{\"error\": \"model not found\"}",
                  "[]", "Bad Gateway"}}
    \cup {ConnectionFailure}

Entry(call, outcome) ==
    [call |-> call, raised |-> IF outcome.kind = "raise" THEN outcome.exc ELSE "none"]

Called(call) == \E i \in 1..Len(log) : log[i].call = call

-----------------------------------------------------------------------------
(* The extractors applied to the cells of one player record *)

InitExtract ==
    /\ cell \in [country : CountryCells, ratingVersions : RatingCells]
    /\ extracted = [country_name |-> Pending, match_rating |-> Pending]
    /\ df = NoFrame /\ gk_stats = NoFrame /\ o_stats = NoFrame /\ collection = NoFrame
    /\ game_stats = << >> /\ match_dict = NoDict /\ prompt = Pending
    /\ exchanges = << >> /\ llm_output = Pending
    /\ log = << >> /\ pc = "idle"

ExtractCountryName ==
    /\ pc = "idle"
    /\ extracted.country_name = Pending
    /\ extracted' = [extracted EXCEPT !.country_name = extract_country_name(cell.country)]
    /\ UNCHANGED <<cell, df, gk_stats, o_stats, collection, game_stats, match_dict,
                   prompt, exchanges, llm_output, log, pc>>

ExtractRating ==
    /\ pc = "idle"
    /\ extracted.match_rating = Pending
    /\ extracted' = [extracted EXCEPT !.match_rating = extract_rating(cell.ratingVersions)]
    /\ UNCHANGED <<cell, df, gk_stats, o_stats, collection, game_stats, match_dict,
                   prompt, exchanges, llm_output, log, pc>>

NextExtract == ExtractCountryName \/ ExtractRating

SpecExtract == InitExtract /\ [][NextExtract]_vars

-----------------------------------------------------------------------------
(* The position filters applied to one player collection, in either order *)

NoCell == [country |-> PyNone, ratingVersions |-> PyNone]

NoExtract == [country_name |-> Pending, match_rating |-> Pending]

InitFilter ==
    /\ df \in PlayerFrames
    /\ collection = df
    /\ gk_stats = NoFrame /\ o_stats = NoFrame
    /\ cell = NoCell /\ extracted = NoExtract
    /\ game_stats = << >> /\ match_dict = NoDict /\ prompt = Pending
    /\ exchanges = << >> /\ llm_output = Pending
    /\ log = << >> /\ pc = "idle"

\* gk_stats = self.Preprocessor.preprocess_gk(player_stats_df)
CallPreprocessGk ==
    LET r == preprocess_gk(df)
    IN  /\ gk_stats' = IF r.kind = "return" THEN r.value ELSE gk_stats
        /\ log' = Append(log, Entry("preprocess_gk", r))
        /\ UNCHANGED <<df, o_stats>>

\* o_stats = self.Preprocessor.preprocess_outfield(player_stats_df)
CallPreprocessOutfield ==
    LET r == preprocess_outfield(df)
    IN  /\ df' = r.df
        /\ o_stats' = IF r.outcome.kind = "return" THEN r.outcome.value ELSE o_stats
        /\ log' = Append(log, Entry("preprocess_outfield", r.outcome))
        /\ UNCHANGED gk_stats

FilterGk ==
    /\ pc = "idle" /\ df # NoFrame /\ ~Called("preprocess_gk")
    /\ CallPreprocessGk
    /\ UNCHANGED <<cell, extracted, collection, game_stats, match_dict, prompt,
                   exchanges, llm_output, pc>>

FilterOutfield ==
    /\ pc = "idle" /\ df # NoFrame /\ ~Called("preprocess_outfield")
    /\ CallPreprocessOutfield
    /\ UNCHANGED <<cell, extracted, collection, game_stats, match_dict, prompt,
                   exchanges, llm_output, pc>>

NextFilter == FilterGk \/ FilterOutfield

SpecFilter == InitFilter /\ [][NextFilter]_vars

-----------------------------------------------------------------------------
(* The prompt builder applied to one table of team statistics *)

InitPrompt ==
    /\ game_stats \in TeamTables
    /\ match_dict = MatchDict
    /\ prompt = Pending
    /\ cell = NoCell /\ extracted = NoExtract
    /\ df = NoFrame /\ gk_stats = NoFrame /\ o_stats = NoFrame /\ collection = NoFrame
    /\ exchanges = << >> /\ llm_output = Pending
    /\ log = << >> /\ pc = "idle"

BuildPrompt ==
    /\ pc = "idle" /\ match_dict = MatchDict /\ prompt = Pending
    /\ prompt' = get_team_llm_prompt(game_stats, match_dict)
    /\ UNCHANGED <<cell, extracted, df, gk_stats, o_stats, collection, game_stats,
                   match_dict, exchanges, llm_output, log, pc>>

NextPrompt == BuildPrompt

SpecPrompt == InitPrompt /\ [][NextPrompt]_vars

-----------------------------------------------------------------------------
(* Preprocessor.general_stats_preprocess *)

InitialDropColumns ==
    {"firstName", "lastName", "userCount", "marketValueCurrency",
     "dateOfBirthTimestamp", "fieldTranslations", "jerseyNumber"}

\* The first outcome that is a raise, in row order, else all the values
FirstRaise(outs) ==
    LET bad == {i \in 1..Len(outs) : outs[i].kind = "raise"}
    IN  IF bad = {} THEN Return([i \in 1..Len(outs) |-> outs[i].value])
        ELSE outs[Least(bad)]

general_stats_preprocess(frame) ==
    LET first == DropColumns(frame, InitialDropColumns)
    IN  IF first.kind = "raise" THEN first
        ELSE IF "country" \notin first.value.columns THEN Raise("KeyError")
        ELSE LET rows == first.value.rows
                 \* df['country'].apply(self.extract_country_name)
                 names == FirstRaise([i \in 1..Len(rows) |->
                                         extract_country_name(rows[i].country)])
             IN  IF names.kind = "raise" THEN names
                 ELSE IF "ratingVersions" \notin first.value.columns THEN Raise("KeyError")
                 ELSE LET \* df['ratingVersions'].apply(self.extract_rating)
                          ratings == FirstRaise([i \in 1..Len(rows) |->
                                                    extract_rating(rows[i].ratingVersions)])
                      IN  IF ratings.kind = "raise" THEN ratings
                          ELSE Return(Frame(
                                 (first.value.columns \ {"country", "ratingVersions"})
                                     \cup {"country_name", "match_rating"},
                                 [i \in 1..Len(rows) |->
                                     [id |-> rows[i].id, position |-> rows[i].position,
                                      country_name |-> names.value[i],
                                      match_rating |-> ratings.value[i]]]))

-----------------------------------------------------------------------------
(* Orchestrator.run: one action per call it makes, in program order *)

\* run with the dashboard's player tables uploaded before the report is asked for
RunOrderUploadFirst ==
    <<"get_player_stats", "general_stats_preprocess", "get_momentum", "get_team_stats",
      "get_match_stats", "get_understat_match", "preprocess_gk", "preprocess_outfield",
      "get_team_llm_prompt", "upload_stats", "general_match_report", "upload_momentum",
      "upload_team_stats", "upload_match_report", "upload_understat">>

RunOrder ==
    <<"get_player_stats", "general_stats_preprocess", "get_momentum", "get_team_stats",
      "get_match_stats", "get_understat_match", "preprocess_gk", "preprocess_outfield",
      "get_team_llm_prompt", "general_match_report", "upload_stats", "upload_momentum",
      "upload_team_stats", "upload_match_report", "upload_understat">>

\* Where run stands once the call at pc has ended with outcome
After(outcome) ==
    IF outcome.kind = "raise" THEN "aborted"
    ELSE LET i == CHOOSE k \in 1..Len(RunOrder) : RunOrder[k] = pc
         IN  IF i = Len(RunOrder) THEN "done" ELSE RunOrder[i + 1]

\* What the providers may return for the match
ScrapedColumns ==
    {"name", "position", "minutesPlayed", "country", "ratingVersions"}
        \cup InitialDropColumns \cup OptionalColumns

ScrapedRows ==
    [position : {"G", "D"},
     country : {PyDict([name |-> PyStr("England")]), PyNone},
     ratingVersions : {PyFloat(75), PyDict([original |-> PyStr("6.8")]),
                       PyStr("{\"original\": 7.5}")}]

ScrapedFrames ==
    {Frame(ScrapedColumns \ absent, Indexed(rows)) :
        absent \in {{}, {"saves"}, {"goals"}, {"jerseyNumber"}},
        rows \in SeqsUpTo(ScrapedRows, MaxPlayers) \ {<< >>}}

\* Team statistics as scraped: a full-match row alone, a statistic with its
\* three periods, and the same after a one-sided statistic
ScrapedTeamStats ==
    LET possession == [i \in 1..3 |->
            StatRow("Possession", "General", Periods[i],
                    PyInt(<<60, 58, 62>>[i]), PyInt(<<40, 42, 38>>[i]))]
    IN  {<<possession[1]>>, possession,
         <<StatRow("Fouls", "General", "ALL", PyInt(5), NaN)>> \o possession}

InitRun ==
    /\ pc = RunOrder[1]
    /\ log = << >>
    /\ df = NoFrame /\ gk_stats = NoFrame /\ o_stats = NoFrame /\ collection = NoFrame
    /\ cell = NoCell /\ extracted = NoExtract
    /\ game_stats = << >> /\ match_dict = NoDict /\ prompt = Pending
    /\ exchanges = << >> /\ llm_output = Pending

\* A call to the Data Source Adapter that fails: the exception leaves run
FetchFails(call) ==
    /\ pc = call
    /\ log' = Append(log, Entry(call, Raise("ConnectionError")))
    /\ pc' = After(Raise("ConnectionError"))
    /\ UNCHANGED <<cell, extracted, df, gk_stats, o_stats, collection, game_stats,
                   match_dict, prompt, exchanges, llm_output>>

\* self.Scraper.get_player_stats()
GetPlayerStats ==
    \/ FetchFails("get_player_stats")
    \/ /\ pc = "get_player_stats"
       /\ df' \in ScrapedFrames
       /\ log' = Append(log, Entry("get_player_stats", Return(PyNone)))
       /\ pc' = After(Return(PyNone))
       /\ UNCHANGED <<cell, extracted, gk_stats, o_stats, collection, game_stats,
                      match_dict, prompt, exchanges, llm_output>>

\* player_stats_df = self.Preprocessor.general_stats_preprocess(...)
GeneralStatsPreprocess ==
    /\ pc = "general_stats_preprocess"
    /\ LET r == general_stats_preprocess(df)
       IN  /\ df' = IF r.kind = "return" THEN r.value ELSE df
           /\ collection' = IF r.kind = "return" THEN r.value ELSE collection
           /\ log' = Append(log, Entry("general_stats_preprocess", r))
           /\ pc' = After(r)
    /\ UNCHANGED <<cell, extracted, gk_stats, o_stats, game_stats, match_dict,
                   prompt, exchanges, llm_output>>

\* momentum_df = self.Scraper.get_momentum(); the table is only displayed
GetMomentum ==
    \/ FetchFails("get_momentum")
    \/ /\ pc = "get_momentum"
       /\ log' = Append(log, Entry("get_momentum", Return(PyNone)))
       /\ pc' = After(Return(PyNone))
       /\ UNCHANGED <<cell, extracted, df, gk_stats, o_stats, collection, game_stats,
                      match_dict, prompt, exchanges, llm_output>>

\* team_stats_df = self.Scraper.get_team_stats()
GetTeamStats ==
    \/ FetchFails("get_team_stats")
    \/ /\ pc = "get_team_stats"
       /\ game_stats' \in ScrapedTeamStats
       /\ log' = Append(log, Entry("get_team_stats", Return(PyNone)))
       /\ pc' = After(Return(PyNone))
       /\ UNCHANGED <<cell, extracted, df, gk_stats, o_stats, collection, match_dict,
                      prompt, exchanges, llm_output>>

\* match_stats_dict = self.Scraper.get_match_stats()
GetMatchStats ==
    \/ FetchFails("get_match_stats")
    \/ /\ pc = "get_match_stats"
       /\ match_dict' = MatchDict
       /\ log' = Append(log, Entry("get_match_stats", Return(PyNone)))
       /\ pc' = After(Return(PyNone))
       /\ UNCHANGED <<cell, extracted, df, gk_stats, o_stats, collection, game_stats,
                      prompt, exchanges, llm_output>>

\* understat_df = self.Scraper.get_understat_match(); the data is only displayed
GetUnderstatMatch ==
    \/ FetchFails("get_understat_match")
    \/ /\ pc = "get_understat_match"
       /\ log' = Append(log, Entry("get_understat_match", Return(PyNone)))
       /\ pc' = After(Return(PyNone))
       /\ UNCHANGED <<cell, extracted, df, gk_stats, o_stats, collection, game_stats,
                      match_dict, prompt, exchanges, llm_output>>

RunPreprocessGk ==
    /\ pc = "preprocess_gk"
    /\ CallPreprocessGk
    /\ pc' = After(preprocess_gk(df))
    /\ UNCHANGED <<cell, extracted, collection, game_stats, match_dict, prompt,
                   exchanges, llm_output>>

RunPreprocessOutfield ==
    /\ pc = "preprocess_outfield"
    /\ CallPreprocessOutfield
    /\ pc' = After(preprocess_outfield(df).outcome)
    /\ UNCHANGED <<cell, extracted, collection, game_stats, match_dict, prompt,
                   exchanges, llm_output>>

\* prompt = self.Preprocessor.get_team_llm_prompt(game_stats=..., match_dict=...)
GetTeamLlmPrompt ==
    /\ pc = "get_team_llm_prompt"
    /\ prompt' = get_team_llm_prompt(game_stats, match_dict)
    /\ log' = Append(log, Entry("get_team_llm_prompt", prompt'))
    /\ pc' = After(prompt')
    /\ UNCHANGED <<cell, extracted, df, gk_stats, o_stats, collection, game_stats,
                   match_dict, exchanges, llm_output>>

\* llm_output = self.LLM.general_match_report(prompt)
GeneralMatchReport ==
    /\ pc = "general_match_report"
    /\ \E first \in Answers, second \in Answers, legacy \in BOOLEAN :
          LET r == general_match_report(prompt.value, first, second, legacy)
          IN  /\ exchanges' = r.exchanges
              /\ llm_output' = r.outcome
              /\ log' = Append(log, Entry("general_match_report", r.outcome))
              /\ pc' = After(r.outcome)
    /\ UNCHANGED <<cell, extracted, df, gk_stats, o_stats, collection, game_stats,
                   match_dict, prompt>>

\* The Streamlit calls: each displays what it is given and returns
Upload(call) ==
    /\ pc = call
    /\ log' = Append(log, Entry(call, Return(PyNone)))
    /\ pc' = After(Return(PyNone))
    /\ UNCHANGED <<cell, extracted, df, gk_stats, o_stats, collection, game_stats,
                   match_dict, prompt, exchanges, llm_output>>

UploadStats == Upload("upload_stats") /\ "position" \in Deref(o_stats).columns

UploadMomentum == Upload("upload_momentum")

UploadTeamStats == Upload("upload_team_stats")

UploadMatchReport == Upload("upload_match_report")

UploadUnderstat == Upload("upload_understat")

Next ==
    \/ GetPlayerStats \/ GeneralStatsPreprocess \/ GetMomentum \/ GetTeamStats
    \/ GetMatchStats \/ GetUnderstatMatch \/ RunPreprocessGk \/ RunPreprocessOutfield
    \/ GetTeamLlmPrompt \/ GeneralMatchReport \/ UploadStats \/ UploadMomentum
    \/ UploadTeamStats \/ UploadMatchReport \/ UploadUnderstat

Spec == InitRun /\ [][Next]_vars

-----------------------------------------------------------------------------
(* The classes the calls of run belong to *)

ScraperCalls ==
    {"get_player_stats", "get_momentum", "get_team_stats", "get_match_stats",
     "get_understat_match"}

PreprocessorCalls ==
    {"general_stats_preprocess", "preprocess_gk", "preprocess_outfield",
     "get_team_llm_prompt"}

LLMCalls == {"general_match_report"}

StreamlitCalls ==
    {"upload_stats", "upload_momentum", "upload_team_stats", "upload_match_report",
     "upload_understat"}

\* fetch 1, shape 2, generate 3, present 4
Stage(call) ==
    CASE call \in ScraperCalls -> 1
      [] call \in PreprocessorCalls -> 2
      [] call \in LLMCalls -> 3
      [] call \in StreamlitCalls -> 4

-----------------------------------------------------------------------------
(* C1 *)

\* The rating the contract gives for x: x itself when a float, float of the
\* "original" field of a mapping or of a string that decodes to a mapping when
\* that field is there and coercible, null otherwise
RatingContract(x) ==
    IF x.t = "float" THEN x
    ELSE LET m == IF x.t = "dict" THEN Return(x)
                  ELSE IF x.t = "str" THEN JsonLoads(x)
                  ELSE Raise("TypeError")
             found == m.kind = "return" /\ m.value.t = "dict"
                        /\ "original" \in DOMAIN m.value.items
         IN  IF found /\ ToFloat(m.value.items.original).kind = "return"
             THEN ToFloat(m.value.items.original).value
             ELSE PyNone

\* C1: on every supported input extract_rating returns, never raises, and the
\* value returned is the one the contract gives (the float, float("original"),
\* or null)
C1_RatingContract ==
    extracted.match_rating # Pending =>
        extracted.match_rating = Return(RatingContract(cell.ratingVersions))

-----------------------------------------------------------------------------
(* C2 *)

\* C2: extract_country_name returns the "name" field of a mapping that has it
\* and returns null, without raising, for every other input
C2_CountryContract ==
    extracted.country_name # Pending =>
        extracted.country_name =
            Return(IF cell.country.t = "dict" /\ "name" \in DOMAIN cell.country.items
                   THEN cell.country.items.name
                   ELSE PyNone)

-----------------------------------------------------------------------------
(* C3, C7, C8 *)

BothFiltered == Called("preprocess_gk") /\ Called("preprocess_outfield")

InRows(r, frame) == \E i \in 1..Len(frame.rows) : frame.rows[i] = r

GkFirst ==
    \E i, j \in 1..Len(log) :
        i < j /\ log[i].call = "preprocess_gk" /\ log[j].call = "preprocess_outfield"

\* C3: once both filters have been applied, every record of the collection is
\* in exactly one of the two subsets: goalkeepers in the goalkeeper subset
\* only, every other position in the outfield subset only
C3_Partition ==
    BothFiltered =>
        \A i \in 1..Len(collection.rows) :
            LET r == collection.rows[i]
            IN  /\ InRows(r, gk_stats) # InRows(r, Deref(o_stats))
                /\ InRows(r, gk_stats) <=> r.position = "G"

\* C7: whatever listed columns the collection lacks, each filter returns
\* without raising, and returns its rows: the goalkeeper records for
\* preprocess_gk, the outfield records still all there after
\* preprocess_outfield; no column outside the two lists is lost
C7_MissingColumnsTolerated ==
    /\ \A i \in 1..Len(log) : log[i].raised = "none"
    /\ Called("preprocess_gk") =>
          /\ gk_stats # NoFrame
          /\ gk_stats.rows = SelectSeq(collection.rows, LAMBDA r : r.position = "G")
          /\ collection.columns \ OptionalColumns \subseteq gk_stats.columns
    /\ Called("preprocess_outfield") =>
          /\ o_stats # NoFrame
          /\ SelectSeq(Deref(o_stats).rows, LAMBDA r : r.position # "G")
                = SelectSeq(collection.rows, LAMBDA r : r.position # "G")
          /\ collection.columns \ OptionalColumns \subseteq Deref(o_stats).columns

\* Both filters applied to a collection with goalkeepers and outfield players
\* that lacks a column of each list
C7_Witness ==
    /\ BothFiltered
    /\ GkDropColumns \ collection.columns # {}
    /\ OutfieldDropColumns \ collection.columns # {}
    /\ \E i, j \in 1..Len(collection.rows) :
          collection.rows[i].position = "G" /\ collection.rows[j].position # "G"
    /\ Len(gk_stats.rows) >= 1

\* C8 as stated: after both filters, in either order, the goalkeeper subset
\* still has the columns only the outfield filter drops and the outfield
\* subset still has the columns only the goalkeeper filter drops
C8_EitherOrder ==
    BothFiltered =>
        /\ collection.columns \cap OutfieldDropColumns \subseteq gk_stats.columns
        /\ collection.columns \cap GkDropColumns \subseteq Deref(o_stats).columns

\* C8 amended: the outfield subset keeps the goalkeeper filter's columns in
\* either order; the goalkeeper subset keeps the outfield filter's columns
\* when preprocess_gk was applied first
C8_GkFirst ==
    BothFiltered =>
        /\ GkFirst => collection.columns \cap OutfieldDropColumns \subseteq gk_stats.columns
        /\ collection.columns \cap GkDropColumns \subseteq Deref(o_stats).columns

\* preprocess_gk then preprocess_outfield on a collection with every listed
\* column: both prunings took place
C8_Witness ==
    /\ BothFiltered /\ GkFirst
    /\ OptionalColumns \subseteq collection.columns
    /\ Len(gk_stats.rows) >= 1
    /\ gk_stats.columns \cap GkDropColumns = {}
    /\ Deref(o_stats).columns \cap OutfieldDropColumns = {}
    /\ OutfieldDropColumns \subseteq gk_stats.columns

-----------------------------------------------------------------------------
(* C4, C5 *)

\* The texts a value of the entries of (pair, period) on one side may be
\* written as
ValueTexts(rows, pair, period, side) ==
    {CellText(rows[i][side], float) :
        i \in {j \in 1..Len(rows) :
                  /\ <<rows[j].key, rows[j].group>> = pair /\ rows[j].period = period
                  /\ NotNa(rows[j][side])},
        float \in BOOLEAN}

\* The clauses the statement allows for (pair, period): none when neither side
\* has a value, else one naming exactly the sides that have one
ClauseTexts(rows, pair, period) ==
    LET H == ValueTexts(rows, pair, period, "home")
        A == ValueTexts(rows, pair, period, "away")
    IN  IF H # {} /\ A # {}
        THEN {period \o ": Home " \o h \o ", Away " \o a \o "; " : h \in H, a \in A}
        ELSE IF H # {} THEN {period \o ": Home " \o h \o "; " : h \in H}
        ELSE IF A # {} THEN {period \o ": Away " \o a \o "; " : a \in A}
        ELSE {}

\* The period scopes, in order, for which (pair) has a value on some side
ScopesWithValue(rows, pair) ==
    SelectSeq(Periods, LAMBDA p : ClauseTexts(rows, pair, p) # {})

\* The groups of the entries that have a value at all
GroupsWithValue(rows) ==
    {pair \in {<<rows[i].key, rows[i].group>> : i \in 1..Len(rows)} :
        Len(ScopesWithValue(rows, pair)) > 0}

\* The fragments of text after its i-th, up to the blank line that ends the group
SegmentAt(text, i) ==
    LET ends == {j \in (i + 1)..Len(text) : text[j] = "\n\n"}
    IN  IF ends = {} THEN SubSeq(text, i + 1, Len(text))
        ELSE SubSeq(text, i + 1, Least(ends) - 1)

\* C4: the call returns a prompt in which every statistic group has, for the
\* scopes ALL, 1ST, 2ND in that order, a clause exactly for the scopes where
\* home or away has a value, naming Home exactly when home has one and Away
\* exactly when away has one; also when a scope has no value in the whole input
C4_PeriodClauses ==
    prompt # Pending =>
        /\ prompt.kind = "return"
        /\ \A pair \in GroupsWithValue(game_stats) :
              \E i \in 1..Len(prompt.value) :
                  /\ prompt.value[i] = pair[1] \o ": "
                  /\ LET seg == SegmentAt(prompt.value, i)
                         scopes == ScopesWithValue(game_stats, pair)
                     IN  /\ Len(seg) = Len(scopes)
                         /\ \A k \in 1..Len(seg) :
                               seg[k] \in ClauseTexts(game_stats, pair, scopes[k])

\* The orderings of a table
Orderings(rows) ==
    {[i \in 1..Len(rows) |-> rows[f[i]]] : f \in Permutations(1..Len(rows))}

\* The group headings of a prompt, in the order they appear
Headings(text) ==
    SelectSeq(text, LAMBDA frag :
        \E i \in 1..Len(Alphabetical) : frag = Alphabetical[i] \o ": ")

\* Headings in ascending order of key
HeadingsSorted(text) ==
    LET H == Headings(text)
    IN  \A i, j \in 1..Len(H) :
            i < j => \E a, b \in 1..Len(Alphabetical) :
                        /\ H[i] = Alphabetical[a] \o ": " /\ H[j] = Alphabetical[b] \o ": "
                        /\ a <= b

\* No two entries for the same key, group and period
UniqueEntries(rows) ==
    \A i, j \in 1..Len(rows) :
        <<rows[i].key, rows[i].group, rows[i].period>>
            = <<rows[j].key, rows[j].group, rows[j].period>> => i = j

\* C5 as stated: for the same set of entries and the same metadata the call
\* ends the same way in whatever order the entries are supplied, with the
\* groups of a returned prompt sorted by key
C5_OrderIndependent ==
    prompt # Pending =>
        /\ \A t \in Orderings(game_stats) : get_team_llm_prompt(t, match_dict) = prompt
        /\ prompt.kind = "return" => HeadingsSorted(prompt.value)

\* C5 amended: the same, for entries no two of which share key, group and period
C5_OrderIndependentUnique ==
    prompt # Pending /\ UniqueEntries(game_stats) =>
        /\ \A t \in Orderings(game_stats) : get_team_llm_prompt(t, match_dict) = prompt
        /\ prompt.kind = "return" => HeadingsSorted(prompt.value)

\* A prompt returned for entries without duplicates whose groups were not
\* supplied in sorted order
C5_Witness ==
    /\ prompt.kind = "return"
    /\ UniqueEntries(game_stats)
    /\ Len(Headings(prompt.value)) >= 2
    /\ \E i, j \in 1..Len(game_stats) :
          /\ i < j
          /\ PairBefore(<<game_stats[j].key, game_stats[j].group>>,
                        <<game_stats[i].key, game_stats[i].group>>)
          /\ NotNa(game_stats[i].home) /\ NotNa(game_stats[j].home)

-----------------------------------------------------------------------------
(* C6, C10 *)

\* C6: when the service answers the request of general_match_report with a
\* status other than 200, the call returns, whatever answer the later request
\* gets, a string holding that status code and that body
C6_ErrorFallback ==
    (llm_output # Pending /\ exchanges[1].answer.kind = "response"
        /\ exchanges[1].answer.status_code # 200) =>
        /\ llm_output.kind = "return"
        /\ \E i \in 1..Len(llm_output.value) :
              llm_output.value[i] = ToString(exchanges[1].answer.status_code)
        /\ \E i \in 1..Len(llm_output.value) :
              llm_output.value[i] = exchanges[1].answer.text.text

\* C10: over a run in which the Report Generator was called, exactly one
\* request carrying the prompt was sent to the service, whatever it answered
C10_PromptSentOnce ==
    llm_output # Pending =>
        Cardinality({i \in 1..Len(exchanges) :
                        /\ "prompt" \in DOMAIN exchanges[i].data.items
                        /\ exchanges[i].data.items.prompt = prompt.value}) = 1

-----------------------------------------------------------------------------
(* C9 *)

\* C9 as stated: the calls of a run come in stages, every fetch before every
\* shaping step, every shaping step before the report is generated, and the
\* report before every upload
C9_StrictStages ==
    \A i, j \in 1..Len(log) : i < j => Stage(log[i].call) <= Stage(log[j].call)

\* C9 amended: the same, except that general_stats_preprocess, which comes
\* right after get_player_stats, precedes the other four fetches
C9_StagesButFirstShaper ==
    /\ \A i, j \in 1..Len(log) :
          i < j => \/ Stage(log[i].call) <= Stage(log[j].call)
                   \/ /\ log[i].call = "general_stats_preprocess"
                      /\ log[j].call \in ScraperCalls \ {"get_player_stats"}
    /\ \A j \in 1..Len(log) :
          log[j].call = "general_stats_preprocess" =>
              j = 2 /\ log[1].call = "get_player_stats"

\* A run that got through all its calls
C9_Witness ==
    /\ pc = "done"
    /\ Len(log) = Len(RunOrder)
    /\ \A c \in ScraperCalls \cup PreprocessorCalls \cup LLMCalls \cup StreamlitCalls :
          Called(c)

====
